---- MODULE Spec2Model ----
(***************************************************************************)
(* A model of src/new.py, the Streamlit face registration / login page.    *)
(*                                                                         *)
(* One Streamlit script run is one atomic step: the page is re-executed    *)
(* top to bottom for every widget interaction, so an action of this model  *)
(* is "the run in which button B was pressed", with every call the run     *)
(* makes (fetch_registered at line 78, the handler, the re-fetch).         *)
(*                                                                         *)
(* Numbers.  Embeddings are vectors of EmbSize integers (128 floats in the *)
(* code); cosine similarities are compared exactly, as fractions           *)
(* num / sqrt(den2), where the code compares IEEE doubles.                 *)
(* Text.  Strings are sequences of one-character strings, so that          *)
(* str.strip, ",".join(map(str, ...)) and np.fromstring(.., sep=",") are   *)
(* computed and not assumed.                                               *)
(***************************************************************************)
EXTENDS Integers, Sequences, FiniteSets, TLC

VARIABLES
    store,          \* the spreadsheet behind GAS_ENDPOINT: the rows a GET returns
    cached,         \* the st.cache_data entry of fetch_registered()
    session_state,  \* st.session_state, a set of <<key, value>> pairs
    req,            \* the widget values of the last script run
    outcome,        \* the st.* messages the last run's button handler showed
    events,         \* the calls the last run made, in order
    now,            \* datetime.datetime.now(), a counter
    fm              \* one call of find_match: its arguments and its result

vars == <<store, cached, session_state, req, outcome, events, now, fm>>

(***************************************************************************)
(* Bounds of the model.                                                    *)
(***************************************************************************)
\* components of an embedding (the code's vectors have 128)
EmbSize == 2
\* longest known_embs list handed to find_match in SpecMatch
MaxKnown == 2
\* most rows the spreadsheet holds in Spec
MaxStore == 2
\* most rows of a GET response in SpecFetch
MaxResp == 3
\* last value of the clock
MaxClock == 2

\* the values a component of a stored embedding takes
Vals == {0, 1, 2}
\* the values a component of a camera embedding takes in Spec
FaceVals == {0, 1}

(***************************************************************************)
(* Text                                                                    *)
(***************************************************************************)
DigitChars == <<"0", "1", "2", "3", "4", "5", "6", "7", "8", "9">>

IsDigit(c) == \E i \in 1..10 : DigitChars[i] = c

DigitVal(c) == (CHOOSE i \in 1..10 : DigitChars[i] = c) - 1

IsSpace(c) == c = " "

RECURSIVE LStrip(_)
LStrip(s) ==
    IF s # <<>> /\ IsSpace(Head(s)) THEN LStrip(Tail(s)) ELSE s

RECURSIVE RStrip(_)
RStrip(s) ==
    IF s # <<>> /\ IsSpace(s[Len(s)]) THEN RStrip(SubSeq(s, 1, Len(s) - 1)) ELSE s

\* str.strip()
Strip(s) == RStrip(LStrip(s))

\* str(n) for a natural number
RECURSIVE NatStr(_)
NatStr(n) ==
    IF n < 10 THEN <<DigitChars[n + 1]>>
    ELSE NatStr(n \div 10) \o <<DigitChars[(n % 10) + 1]>>

\* str(x) for a component of an embedding
Str(x) == IF x < 0 THEN <<"-">> \o NatStr(-x) ELSE NatStr(x)

\* sep.join(parts)
RECURSIVE Join(_, _)
Join(sep, parts) ==
    IF parts = <<>> THEN <<>>
    ELSE IF Len(parts) = 1 THEN parts[1]
    ELSE parts[1] \o sep \o Join(sep, Tail(parts))

\* ",".join(map(str, emb.tolist()))
Encode(emb) == Join(<<",">>, [i \in 1..Len(emb) |-> Str(emb[i])])

\* the text up to the first separator, and what follows that separator
RECURSIVE TokenEnd(_, _)
TokenEnd(s, i) ==
    IF i > Len(s) \/ s[i] = "," THEN i ELSE TokenEnd(s, i + 1)

RECURSIVE DigitsVal(_, _)
DigitsVal(s, acc) ==
    IF s = <<>> THEN acc ELSE DigitsVal(Tail(s), 10 * acc + DigitVal(Head(s)))

AllDigits(s) == s # <<>> /\ \A i \in 1..Len(s) : IsDigit(s[i])

\* whether a token is a decimal number, and its value
IsNumber(tok) ==
    IF tok # <<>> /\ Head(tok) = "-" THEN AllDigits(Tail(tok)) ELSE AllDigits(tok)

NumberVal(tok) ==
    IF Head(tok) = "-" THEN 0 - DigitsVal(Tail(tok), 0) ELSE DigitsVal(tok, 0)

\* np.fromstring(text, sep=","): the numbers read up to the first piece of
\* text that is no number (numpy stops there and returns what it has read)
RECURSIVE FromString(_)
FromString(s) ==
    IF s = <<>> THEN <<>>
    ELSE LET e == TokenEnd(s, 1)
             tok == Strip(SubSeq(s, 1, e - 1))
         IN IF ~IsNumber(tok) THEN <<>>
            ELSE IF e >= Len(s) THEN <<NumberVal(tok)>>
            ELSE <<NumberVal(tok)>> \o FromString(SubSeq(s, e + 1, Len(s)))

(***************************************************************************)
(* Embeddings and cosine similarity                                        *)
(***************************************************************************)
Embs == [1..EmbSize -> Vals]

\* what DeepFace.represent returns for the faces in front of the camera:
\* three people, whose embeddings differ in the first two components
FaceEmbs ==
    {e \in [1..EmbSize -> FaceVals] :
        /\ \E i \in 1..EmbSize : e[i] # 0
        /\ \A i \in 1..EmbSize : i > 2 => e[i] = 0}

RECURSIVE SumTo(_, _, _)
SumTo(a, b, i) == IF i = 0 THEN 0 ELSE a[i] * b[i] + SumTo(a, b, i - 1)

Dot(a, b) == SumTo(a, b, Len(a))

Norm2(a) == Dot(a, a)

\* sklearn's cosine_similarity of one row with the query, as the fraction
\* num / sqrt(den2): rows are normalised first, and a row of norm zero is
\* left as it is, so its similarity to anything is 0
Sim(a, q) ==
    IF Norm2(a) = 0 \/ Norm2(q) = 0 THEN [num |-> 0, den2 |-> 1]
    ELSE [num |-> Dot(a, q), den2 |-> Norm2(a) * Norm2(q)]

\* x > y for x = x.num / sqrt(x.den2), y = y.num / sqrt(y.den2)
Greater(x, y) ==
    IF x.num >= 0 /\ y.num < 0 THEN TRUE
    ELSE IF x.num < 0 /\ y.num >= 0 THEN FALSE
    ELSE IF x.num >= 0
         THEN x.num * x.num * y.den2 > y.num * y.num * x.den2
         ELSE x.num * x.num * y.den2 < y.num * y.num * x.den2

\* cosine_similarity(known_embs_np, test_emb).flatten()
cosine_similarity(known_embs, test_emb) ==
    [i \in 1..Len(known_embs) |-> Sim(known_embs[i], test_emb)]

\* a threshold t = num/den, and the cut 1 - t as a fraction
Cut(threshold) ==
    [num |-> threshold.den - threshold.num, den2 |-> threshold.den * threshold.den]

\* the default threshold=0.4 of find_match
DefaultThreshold == [num |-> 2, den |-> 5]

\* find_match's "no match": Python's None (indices are 0-based, so 0 is a match)
None == -1

\* np.argmax(sims), 0-based: the scan keeps the first of equal maxima
RECURSIVE ArgMaxFrom(_, _, _)
ArgMaxFrom(sims, i, best) ==
    IF i > Len(sims) THEN best
    ELSE ArgMaxFrom(sims, i + 1, IF Greater(sims[i], sims[best]) THEN i ELSE best)

argmax(sims) == ArgMaxFrom(sims, 2, 1) - 1

\* a scan that keeps the last of equal maxima
RECURSIVE ArgMaxLastFrom(_, _, _)
ArgMaxLastFrom(sims, i, best) ==
    IF i > Len(sims) THEN best
    ELSE ArgMaxLastFrom(sims, i + 1, IF Greater(sims[best], sims[i]) THEN best ELSE i)

find_match_last(known_embs, test_emb, threshold) ==
    IF known_embs = <<>> THEN None
    ELSE LET sims == cosine_similarity(known_embs, test_emb)
             best_idx == ArgMaxLastFrom(sims, 2, 1) - 1
         IN IF Greater(sims[best_idx + 1], Cut(threshold)) THEN best_idx ELSE None

\* np.argmin where the code has np.argmax
RECURSIVE ArgMinFrom(_, _, _)
ArgMinFrom(sims, i, best) ==
    IF i > Len(sims) THEN best
    ELSE ArgMinFrom(sims, i + 1, IF Greater(sims[best], sims[i]) THEN i ELSE best)

find_match_argmin(known_embs, test_emb, threshold) ==
    IF known_embs = <<>> THEN None
    ELSE LET sims == cosine_similarity(known_embs, test_emb)
             best_idx == ArgMinFrom(sims, 2, 1) - 1
         IN IF Greater(sims[best_idx + 1], Cut(threshold)) THEN best_idx ELSE None

find_match(known_embs, test_emb, threshold) ==
    IF known_embs = <<>> THEN None
    ELSE LET sims == cosine_similarity(known_embs, test_emb)
             best_idx == argmax(sims)
         IN IF Greater(sims[best_idx + 1], Cut(threshold)) THEN best_idx ELSE None

(***************************************************************************)
(* The record store: the JSON a GET returns                                *)
(***************************************************************************)
\* A JSON value of the response list.  type "object" is a dict that holds the
\* keys in `keys` (the other fields are then unused and empty); type "null"
\* is any JSON value that is no dict.
JsonObject(keys, timestamp, student_id, name, encoding) ==
    [type |-> "object", keys |-> keys, timestamp |-> timestamp,
     student_id |-> student_id, name |-> name, encoding |-> encoding]

JsonNull ==
    [type |-> "null", keys |-> {}, timestamp |-> 0,
     student_id |-> <<>>, name |-> <<>>, encoding |-> <<>>]

AllKeys == {"timestamp", "student_id", "name", "encoding"}

\* new_row of the Register handler
NewRow(timestamp, sid, name, emb) ==
    JsonObject(AllKeys, timestamp, Strip(sid), Strip(name), Encode(emb))

\* one st.error / st.warning / st.info / st.success call
Msg(level, text, arg) == [level |-> level, text |-> text, arg |-> arg]

Unknown == <<"U", "n", "k", "n", "o", "w", "n">>

\* what fetch_registered() returns, with the st.* calls it made: st.cache_data
\* stores both
Fetched(names, embs, full, msgs) ==
    [names |-> names, embs |-> embs, full |-> full, msgs |-> msgs]

\* the body of the for loop for one d, on the accumulated lists; raised is
\* set when an exception leaves the loop
LoopBody(acc, d) ==
    IF d.type # "object"
    THEN \* d["encoding"] raises TypeError; the handler's d.get raises
         \* AttributeError, which no inner handler catches
         [acc EXCEPT !.raised = TRUE]
    ELSE IF "encoding" \notin d.keys
    THEN \* KeyError, caught: the warning names d.get("name", "Unknown")
         [acc EXCEPT !.msgs = Append(@, Msg("warning", "Failed to parse encoding for",
                                     IF "name" \in d.keys THEN d.name ELSE Unknown))]
    ELSE LET emb == FromString(d.encoding)
         IN IF Len(emb) = EmbSize
            THEN IF "name" \in d.keys
                 THEN [acc EXCEPT !.names = Append(@, d.name),
                                  !.embs = Append(@, emb),
                                  !.full = Append(@, d)]
                 ELSE \* names.append(d["name"]) raises KeyError before any append
                      [acc EXCEPT !.msgs = Append(@,
                           Msg("warning", "Failed to parse encoding for", Unknown))]
            ELSE IF "name" \in d.keys
                 THEN [acc EXCEPT !.msgs = Append(@,
                           Msg("warning", "Skipped corrupted encoding for", d.name))]
                 ELSE \* the f-string's d['name'] raises KeyError, caught
                      [acc EXCEPT !.msgs = Append(@,
                           Msg("warning", "Failed to parse encoding for", Unknown))]

RECURSIVE Loop(_, _)
Loop(acc, data) ==
    IF data = <<>> \/ acc.raised THEN acc
    ELSE Loop(LoopBody(acc, Head(data)), Tail(data))

FetchFailed == Msg("error", "Failed to fetch registered users", <<>>)

\* fetch_registered() on a cache miss.  resp.ok is FALSE when requests.get,
\* raise_for_status or resp.json() raises.
fetch_registered(resp) ==
    IF ~resp.ok THEN Fetched(<<>>, <<>>, <<>>, <<FetchFailed>>)
    ELSE LET r == Loop([names |-> <<>>, embs |-> <<>>, full |-> <<>>,
                        msgs |-> <<>>, raised |-> FALSE], resp.data)
         IN IF r.raised
            THEN Fetched(<<>>, <<>>, <<>>, Append(r.msgs, FetchFailed))
            ELSE Fetched(r.names, r.embs, r.full, r.msgs)

\* the locals of line 78
names_known == cached.names
embs_known == cached.embs
full_data == cached.full

(***************************************************************************)
(* The page: one action per button, each a whole script run                *)
(***************************************************************************)
\* emb = None: no photo, or DeepFace.represent raised
NoFace == <<>>

Request(button, emb, name, sid) ==
    [button |-> button, emb |-> emb, name |-> name, sid |-> sid]

Call(call, ok) == [call |-> call, ok |-> ok]

\* a dummy find_match call record, for the specifications that make none
NoCall ==
    [known_embs |-> <<>>, test_emb |-> <<>>, threshold |-> DefaultThreshold,
     ret |-> None, called |-> FALSE]

\* what the user types into "Full Name" and "Student ID"
NameInputs == {<<" ">>, <<"a">>, <<" ", "b", " ">>}
SidInputs == {<<" ">>, <<"7">>}

LoggedIn == {p \in session_state : p[1] = "logged_in"}

MsgNoFace == Msg("error", "No face embedding detected", <<>>)
MsgEnterBoth == Msg("error", "Please enter both Full Name and Student ID", <<>>)
MsgSamePerson(n) == Msg("info", "Same person detected. Registration skipped", n)
MsgUploadFailed == Msg("error", "Upload failed", <<>>)
MsgRegistered == Msg("success", "Registered successfully", <<>>)
MsgNoStudents == Msg("error", "No students registered", <<>>)
MsgWelcome(n) == Msg("success", "Welcome back", n)
MsgNotRecognised == Msg("error", "Face not recognised. Please register", <<>>)

\* the sidebar's "Refresh Data" button: clear the cache and rerun; the rerun's
\* line 78 fetches
Refresh(getOk) ==
    /\ req' = Request("Refresh Data", NoFace, <<>>, <<>>)
    /\ events' = <<Call("clear", TRUE), Call("GET", getOk)>>
    /\ cached' = fetch_registered([ok |-> getOk, data |-> store])
    /\ outcome' = <<>>
    /\ UNCHANGED <<store, session_state, now, fm>>

\* post_student(row): the exception of a failed POST is caught and shown
post_student(row, postOk) ==
    [store |-> IF postOk THEN Append(store, row) ELSE store,
     msgs |-> IF postOk THEN <<>> ELSE <<MsgUploadFailed>>]

\* `not name`, without the strip
BlankUnstripped(text) == text = <<>>

\* `not name.strip()`
Blank(text) == Strip(text) = <<>>

\* `if match_idx:`, which takes index 0 for no match
RegisterMatchedTruthy(match_idx) == match_idx > 0

\* `match_idx is not None` of the Register handler
RegisterMatched(match_idx) == match_idx # None

\* the "Register" button
Register(emb, name, sid) ==
    /\ req' = Request("Register", emb, name, sid)
    /\ UNCHANGED <<session_state, fm>>
    /\ IF emb = NoFace
       THEN /\ outcome' = <<MsgNoFace>>
            /\ events' = <<>>
            /\ UNCHANGED <<store, cached, now>>
       ELSE IF Blank(name) \/ Blank(sid)
       THEN /\ outcome' = <<MsgEnterBoth>>
            /\ events' = <<>>
            /\ UNCHANGED <<store, cached, now>>
       ELSE LET match_idx == find_match(embs_known, emb, DefaultThreshold)
            IN IF RegisterMatched(match_idx)
               THEN /\ outcome' = <<MsgSamePerson(names_known[match_idx + 1])>>
                    /\ events' = <<Call("find_match", TRUE)>>
                    /\ UNCHANGED <<store, cached, now>>
               ELSE \E postOk \in BOOLEAN, getOk \in BOOLEAN :
                    LET posted == post_student(NewRow(now, sid, name, emb), postOk)
                    IN /\ Len(store) < MaxStore
                       /\ now < MaxClock
                       /\ now' = now + 1
                       /\ store' = posted.store
                       /\ outcome' = posted.msgs \o <<MsgRegistered>>
                       /\ events' = <<Call("find_match", TRUE), Call("POST", postOk),
                                      Call("clear", TRUE), Call("GET", getOk)>>
                       /\ cached' = fetch_registered([ok |-> getOk, data |-> store'])

\* a Login handler without the empty-list branch
NoStudentsSkipped(embs) == FALSE

\* `not embs_known` of the Login handler
NoStudents(embs) == embs = <<>>

\* `match_idx is not None` of the Login handler
LoginMatched(match_idx) == match_idx # None

\* the "Login" button, enabled only when login_emb is not None
Login(login_emb) ==
    /\ req' = Request("Login", login_emb, <<>>, <<>>)
    /\ UNCHANGED <<store, cached, now, fm>>
    /\ IF NoStudents(embs_known)
       THEN /\ outcome' = <<MsgNoStudents>>
            /\ events' = <<>>
            /\ UNCHANGED session_state
       ELSE LET match_idx == find_match(embs_known, login_emb, DefaultThreshold)
            IN /\ events' = <<Call("find_match", TRUE)>>
               /\ IF LoginMatched(match_idx)
                  THEN /\ outcome' = <<MsgWelcome(names_known[match_idx + 1])>>
                       /\ session_state' = (session_state \ LoggedIn)
                               \cup {<<"logged_in", names_known[match_idx + 1]>>}
                  ELSE /\ outcome' = <<MsgNotRecognised>>
                       /\ UNCHANGED session_state

\* a "Log out" handler that leaves st.session_state as it is
LogoutKeepsSession ==
    /\ LoggedIn # {}
    /\ req' = Request("Log out", NoFace, <<>>, <<>>)
    /\ outcome' = <<>>
    /\ events' = <<>>
    /\ UNCHANGED <<store, cached, session_state, now, fm>>

\* the "Log out" button, drawn only when "logged_in" is in st.session_state
Logout ==
    /\ LoggedIn # {}
    /\ req' = Request("Log out", NoFace, <<>>, <<>>)
    /\ session_state' = session_state \ LoggedIn
    /\ outcome' = <<>>
    /\ events' = <<>>
    /\ UNCHANGED <<store, cached, now, fm>>

\* the page after its first run, on an empty spreadsheet
Init ==
    /\ store = <<>>
    /\ \E getOk \in BOOLEAN :
          /\ cached = fetch_registered([ok |-> getOk, data |-> store])
          /\ events = <<Call("GET", getOk)>>
    /\ session_state = {}
    /\ req = Request("", NoFace, <<>>, <<>>)
    /\ outcome = <<>>
    /\ now = 0
    /\ fm = NoCall

DoRefresh == \E getOk \in BOOLEAN : Refresh(getOk)

DoRegister ==
    \E emb \in FaceEmbs \cup {NoFace}, name \in NameInputs, sid \in SidInputs :
        Register(emb, name, sid)

DoLogin == \E login_emb \in FaceEmbs : Login(login_emb)

Next == DoRefresh \/ DoRegister \/ DoLogin \/ Logout

Spec == Init /\ [][Next]_vars

(***************************************************************************)
(* find_match alone: every call on bounded arguments                       *)
(***************************************************************************)
\* thresholds in (0, 1]: 0.2, the default 0.4, and 1
Thresholds == {[num |-> 1, den |-> 5], DefaultThreshold, [num |-> 1, den |-> 1]}

KnownLists == UNION {[1..n -> Embs] : n \in 0..MaxKnown}

\* the queries: the 0/1 vectors, and one with components of both signs
Queries ==
    [1..EmbSize -> {0, 1}] \cup {[i \in 1..EmbSize |-> IF i = 1 THEN 1 ELSE -1]}

InitMatch ==
    /\ store = <<>>
    /\ cached = Fetched(<<>>, <<>>, <<>>, <<>>)
    /\ session_state = {}
    /\ req = Request("", NoFace, <<>>, <<>>)
    /\ outcome = <<>>
    /\ events = <<>>
    /\ now = 0
    /\ fm \in [known_embs : KnownLists, test_emb : Queries, threshold : Thresholds,
               ret : {None}, called : {FALSE}]

CallFindMatch ==
    /\ ~fm.called
    /\ fm' = [fm EXCEPT !.ret = find_match(fm.known_embs, fm.test_emb, fm.threshold),
                        !.called = TRUE]
    /\ UNCHANGED <<store, cached, session_state, req, outcome, events, now>>

NextMatch == CallFindMatch

SpecMatch == InitMatch /\ [][NextMatch]_vars

(***************************************************************************)
(* fetch_registered alone: a refresh on every bounded GET response         *)
(***************************************************************************)
Ones(n) == [i \in 1..n |-> 1]

\* the encodings a fetched row may carry: embeddings, a list one value short,
\* a list one value long, text that is no number, the empty string
RowEncodings ==
    {Encode(e) : e \in FaceEmbs}
        \cup {Encode(Ones(EmbSize - 1)), Encode(Ones(EmbSize + 1)), <<"x">>, <<>>}

\* the JSON values of a response: whole rows, rows that lack "encoding" or
\* "name", and a value that is no dict
ResponseRows ==
    {JsonObject(AllKeys, 0, <<"7">>, <<"a">>, enc) : enc \in RowEncodings}
        \cup {JsonObject(AllKeys, 0, <<"7">>, <<"b">>, Encode(Ones(EmbSize))),
              JsonObject(AllKeys \ {"encoding"}, 0, <<"7">>, <<"a">>, <<>>),
              JsonObject({"timestamp"}, 0, <<>>, <<>>, <<>>),
              JsonObject(AllKeys \ {"name"}, 0, <<"7">>, <<>>, Encode(Ones(EmbSize))),
              JsonObject(AllKeys \ {"name"}, 0, <<"7">>, <<>>, <<"x">>),
              JsonNull}

Responses == UNION {[1..n -> ResponseRows] : n \in 0..MaxResp}

\* a sheet of any bounded content, before the page has fetched it
InitFetch ==
    /\ store \in Responses
    /\ cached = Fetched(<<>>, <<>>, <<>>, <<>>)
    /\ events = <<>>
    /\ session_state = {}
    /\ req = Request("", NoFace, <<>>, <<>>)
    /\ outcome = <<>>
    /\ now = 0
    /\ fm = NoCall

NextFetch == DoRefresh

SpecFetch == InitFetch /\ [][NextFetch]_vars

(***************************************************************************)
(* Properties of find_match (SpecMatch)                                    *)
(***************************************************************************)
\* the similarities of the call recorded in fm
FmSims == [i \in 1..Len(fm.known_embs) |-> Sim(fm.known_embs[i], fm.test_emb)]

\* no entry is more similar to the query than entry i
FmIsMax(i) == \A j \in 1..Len(fm.known_embs) : ~Greater(FmSims[j], FmSims[i])

\* some entry's similarity exceeds 1 - threshold
FmAboveCut == \E i \in 1..Len(fm.known_embs) : Greater(FmSims[i], Cut(fm.threshold))

\* C7: find_match returns no match when known is empty or when the maximum
\* similarity is at most 1 - threshold; otherwise it returns the lowest index
\* whose similarity to the query equals the maximum.
C7_FindMatchResult ==
    fm.called =>
        IF fm.known_embs = <<>> \/ ~FmAboveCut
        THEN fm.ret = None
        ELSE /\ fm.ret \in 0..(Len(fm.known_embs) - 1)
             /\ FmIsMax(fm.ret + 1)
             /\ \A j \in 1..fm.ret : ~FmIsMax(j)

\* C7's case: a match on a list where a later, different entry ties with the
\* best one
C7_Witness ==
    /\ fm.called
    /\ fm.ret # None
    /\ \E j \in (fm.ret + 2)..Len(fm.known_embs) :
          /\ FmIsMax(j)
          /\ fm.known_embs[j] # fm.known_embs[fm.ret + 1]

\* a and b have the same direction: b is a positive multiple of a
Parallel(a, b) ==
    /\ Dot(a, b) > 0
    /\ \A k \in 1..Len(a), l \in 1..Len(a) : a[k] * b[l] = a[l] * b[k]

Made(es, c) == \E i \in 1..Len(es) : es[i] = c
MadeCall(es, name) == \E i \in 1..Len(es) : es[i].call = name
Shown(ms, m) == \E i \in 1..Len(ms) : ms[i] = m
CountCalls(es, name) == Cardinality({i \in 1..Len(es) : es[i].call = name})

\* the Register inputs that pass validation
ValidRegister(r) ==
    /\ r.button = "Register"
    /\ r.emb # NoFace
    /\ Strip(r.name) # <<>>
    /\ Strip(r.sid) # <<>>

\* the rows of the spreadsheet that hold embedding e
RowsOf(rows, e) == {i \in 1..Len(rows) : rows[i].encoding = Encode(e)}

\* C1: registering the same embedding twice in a row (other name/id text
\* allowed), the KnownSet re-fetched in between, yields Registered and then
\* Skipped, and the store then holds exactly one record for the embedding.
\* The step is the second call; the state before it is that of the first.
C1_RegisterTwice ==
    [][(/\ ValidRegister(req)
        /\ Shown(outcome, MsgRegistered)
        /\ MadeCall(events, "clear") /\ MadeCall(events, "GET")
        /\ ValidRegister(req')
        /\ req'.emb = req.emb)
       => (/\ \E n \in {Strip(x) : x \in NameInputs} : outcome' = <<MsgSamePerson(n)>>
           /\ Cardinality(RowsOf(store', req.emb)) = 1)]_vars

\* C2: when the POST of a registration fails, the outcome is the store error
\* and never Registered, and the POST was made exactly once.
C2_PostFailure ==
    Made(events, Call("POST", FALSE)) =>
        /\ Shown(outcome, MsgUploadFailed)
        /\ ~Shown(outcome, MsgRegistered)
        /\ CountCalls(events, "POST") = 1

\* C3: when the GET of a refresh (the Refresh button, or the re-fetch after a
\* registration) fails, the KnownSet held before is left as it was.
C3_FetchFailureKeepsKnown ==
    [][Made(events', Call("GET", FALSE))
       => (/\ cached'.names = cached.names
           /\ cached'.embs = cached.embs
           /\ cached'.full = cached.full)]_vars

\* C4: a Register whose embedding is absent, or whose name or student id is
\* empty after trimming, yields a validation error; no POST is made, and the
\* cache is neither cleared nor re-fetched.
C4_ValidationError ==
    [][(/\ req'.button = "Register"
        /\ \/ req'.emb = NoFace
           \/ Strip(req'.name) = <<>>
           \/ Strip(req'.sid) = <<>>)
       => (/\ outcome' \in {<<MsgNoFace>>, <<MsgEnterBoth>>}
           /\ req'.emb = NoFace <=> outcome' = <<MsgNoFace>>
           /\ ~MadeCall(events', "POST")
           /\ ~MadeCall(events', "clear")
           /\ ~MadeCall(events', "GET")
           /\ store' = store
           /\ cached' = cached)]_vars

\* C4's case: a face, a student id, a name of spaces only, with a KnownSet
\* that could have been cleared
C4_Witness ==
    /\ req.button = "Register"
    /\ req.emb # NoFace
    /\ req.name # <<>> /\ Strip(req.name) = <<>>
    /\ Strip(req.sid) # <<>>
    /\ outcome = <<MsgEnterBoth>>
    /\ events = <<>>
    /\ cached.embs # <<>>

\* C5: when Register's matcher finds a match, the outcome is Skipped with the
\* name stored at the matched index and nothing is appended to the store; a
\* row is appended (a POST is made) only when the matcher returns no match.
C5_SkipOnMatch ==
    [][/\ ValidRegister(req') =>
            LET idx == find_match(cached.embs, req'.emb, DefaultThreshold)
            IN idx # None =>
                  /\ outcome' = <<MsgSamePerson(cached.names[idx + 1])>>
                  /\ ~MadeCall(events', "POST")
                  /\ store' = store
       /\ (store' # store \/ MadeCall(events', "POST")) =>
            /\ ValidRegister(req')
            /\ find_match(cached.embs, req'.emb, DefaultThreshold) = None
            /\ store' \in {store, Append(store, NewRow(now, req'.sid, req'.name, req'.emb))}
      ]_vars

\* C5's case: a registration skipped for a face that is stored under another
\* name than the one typed
C5_Witness ==
    /\ ValidRegister(req)
    /\ events = <<Call("find_match", TRUE)>>
    /\ \E i \in 1..Len(cached.names) :
          /\ outcome = <<MsgSamePerson(cached.names[i])>>
          /\ cached.names[i] # Strip(req.name)

\* C6: a Login with an empty KnownSet yields EmptyRegistry, which is not
\* Rejected, and the matcher is not run; Rejected is shown only by a Login on
\* a non-empty KnownSet that the matcher finds no match in.
C6_EmptyRegistry ==
    /\ MsgNoStudents # MsgNotRecognised
    /\ (req.button = "Login" /\ cached.embs = <<>>) =>
          /\ outcome = <<MsgNoStudents>>
          /\ ~MadeCall(events, "find_match")
    /\ Shown(outcome, MsgNotRecognised) =>
          /\ req.button = "Login"
          /\ cached.embs # <<>>
          /\ find_match(cached.embs, req.emb, DefaultThreshold) = None

\* C6's case: a Login on an empty KnownSet
C6_Witness ==
    /\ req.button = "Login"
    /\ cached.embs = <<>>
    /\ outcome = <<MsgNoStudents>>

\* what a Login shows, from the KnownSet and the photo alone
LoginOutcome(known, emb) ==
    IF known.embs = <<>> THEN <<MsgNoStudents>>
    ELSE LET idx == find_match(known.embs, emb, DefaultThreshold)
         IN IF idx = None THEN <<MsgNotRecognised>>
            ELSE <<MsgWelcome(known.names[idx + 1])>>

\* C10: the session identity changes in two ways only: a Login that matches
\* sets it to the name at the matched index, and Log out clears it.  A Login
\* that is rejected or finds the registry empty, a Register and a Refresh
\* leave it as it is, and what a Login shows depends on the KnownSet and the
\* photo alone, not on earlier attempts.
C10_SessionIdentity ==
    [][LET matched == /\ req'.button = "Login"
                      /\ cached.embs # <<>>
                      /\ find_match(cached.embs, req'.emb, DefaultThreshold) # None
           name == cached.names[find_match(cached.embs, req'.emb, DefaultThreshold) + 1]
       IN /\ matched => session_state' = {<<"logged_in", name>>}
          /\ req'.button = "Log out" => session_state' = {}
          /\ (~matched /\ req'.button # "Log out") => session_state' = session_state
          /\ req'.button = "Login" => outcome' = LoginOutcome(cached, req'.emb)
      ]_vars

\* C10's case: a Login rejected while somebody is logged in, who stays so
C10_Witness ==
    /\ req.button = "Login"
    /\ outcome = <<MsgNotRecognised>>
    /\ session_state # {}

\* C1 on the runs where the spreadsheet answers: from a KnownSet that is the
\* current sheet, with the POST and the GET of the first call succeeding, the
\* second call is Skipped and the sheet holds one row for the embedding.
RegisterTwiceWhenStoreAnswers ==
    [][(/\ ValidRegister(req)
        /\ events = <<Call("find_match", TRUE), Call("POST", TRUE),
                      Call("clear", TRUE), Call("GET", TRUE)>>
        /\ Cardinality(RowsOf(store, req.emb)) = 1
        /\ ValidRegister(req')
        /\ req'.emb = req.emb)
       => (/\ \E n \in {Strip(x) : x \in NameInputs} : outcome' = <<MsgSamePerson(n)>>
           /\ store' = store)]_vars

(***************************************************************************)
(* Properties of fetch_registered (SpecFetch)                              *)
(***************************************************************************)
\* a record of the response that is a dict with a name and an encoding of
\* exactly EmbSize numbers
WellFormed(d) ==
    /\ d.type = "object"
    /\ {"name", "encoding"} \subseteq d.keys
    /\ Len(FromString(d.encoding)) = EmbSize

\* C9: when the response arrives, every record that is malformed or whose
\* encoding does not parse into exactly EmbSize values is skipped with a
\* warning and never aborts the fetch: the other records are all admitted,
\* in response order, with names, embeddings and records index-aligned.
C9_MalformedSkipped ==
    Made(events, Call("GET", TRUE)) =>
        LET good == SelectSeq(store, WellFormed)
        IN /\ cached.full = good
           /\ cached.names = [i \in 1..Len(good) |-> good[i].name]
           /\ cached.embs = [i \in 1..Len(good) |-> FromString(good[i].encoding)]

\* C9 for the records that are dicts: when every value of the response is a
\* JSON object, the well-formed ones are admitted as C9 says and each of the
\* others is answered by one warning
MalformedObjectsSkipped ==
    (/\ Made(events, Call("GET", TRUE))
     /\ \A i \in 1..Len(store) : store[i].type = "object")
    => /\ C9_MalformedSkipped
       /\ Len(cached.msgs) = Len(store) - Len(cached.full)
       /\ \A i \in 1..Len(cached.msgs) : cached.msgs[i].level = "warning"

====
